---- MODULE Spec2Model ----
(***************************************************************************)
(* A model of the US Legal MCP server: the relevance scorer                *)
(* (calculateRelevanceScore, scoreBillRelevance, scoreDocumentRelevance),  *)
(* the source adapters (CongressAPI, FederalRegisterAPI, USCodeAPI,        *)
(* CourtListenerAPI, RegulationsGovAPI), the aggregator                    *)
(* (USLegalAPI.searchAll) and the call-tool handler of src/src/index.ts.   *)
(*                                                                         *)
(* Strings are sequences of one-character strings.  A JavaScript           *)
(* `undefined` is the one-element sequence Undefined, which is no text.    *)
(***************************************************************************)
EXTENDS Integers, Sequences, FiniteSets, TLC

VARIABLES
    text,       \* scorer: the text argument of calculateRelevanceScore
    squery,     \* scorer: the query argument of calculateRelevanceScore
    score,      \* scorer: what calculateRelevanceScore did (NoScore before)
    op,         \* the operation in progress: "idle", an adapter method, "searchAll"
    query,      \* the query argument of the operation in progress
    limit,      \* the limit argument of the operation in progress
    calls,      \* the adapter invocations of the operation, in invocation order
    agg,        \* what searchAll resolved to (Unresolved before)
    entity,     \* scorer: the bill or document handed to its scorer (NoEntity if none)
    keys,       \* the credentials the adapters were constructed with
    tool,       \* gateway: the tool call being handled (NoTool if none)
    response    \* gateway: what the call-tool handler did (NoResponse before)

vars == <<text, squery, score, op, query, limit, calls, agg, entity, keys, tool, response>>

scorerVars == <<text, squery, score, entity>>
serverVars == <<op, query, limit, calls, agg>>
gatewayVars == <<keys, tool, response>>

(***************************************************************************)
(* Bounds of the model.                                                    *)
(***************************************************************************)
MaxTextLen == 3      \* longest text the scorer is run on
MaxQueryLen == 3     \* longest query the scorer is run on
MaxCand == 3         \* most candidates an upstream response carries
MaxLimit == 3        \* largest limit of a single adapter call
MaxAllLimit == 5     \* largest limit of a searchAll call
MaxAllCand == 2      \* most candidates a reply to one of searchAll's sources carries

(***************************************************************************)
(* Strings.                                                                *)
(***************************************************************************)
Chars == {"a", "b", "A", "+", " "}

Undefined == <<"undefined">>

\* an array-valued field that is undefined (no array of strings)
NoArray == <<<<"no", "array">>>>

RECURSIVE StringsUpTo(_)
StringsUpTo(n) ==
    IF n = 0 THEN {<<>>}
    ELSE LET shorter == StringsUpTo(n - 1)
         IN shorter \cup {Append(s, c) : s \in {t \in shorter : Len(t) = n - 1}, c \in Chars}

Min(a, b) == IF a < b THEN a ELSE b

SetMax(S) == CHOOSE x \in S : \A y \in S : y <= x

\* String.prototype.toLowerCase
toLowerCase(s) == [i \in 1..Len(s) |-> IF s[i] = "A" THEN "a" ELSE s[i]]

\* String.prototype.includes
includes(s, sub) ==
    \E p \in 1..(Len(s) + 1) :
        /\ p + Len(sub) - 1 <= Len(s)
        /\ SubSeq(s, p, p + Len(sub) - 1) = sub

\* String.prototype.split(/\s+/): the maximal runs of non-blank characters
\* (the empty strings a leading or trailing blank run yields are kept out:
\* every caller filters on length > 2).
RECURSIVE split(_)
split(s) ==
    IF s = <<>> THEN <<>>
    ELSE IF s[1] = " " THEN split(Tail(s))
    ELSE LET stops == {i \in 1..Len(s) : s[i] = " "}
             end == IF stops = {} THEN Len(s) + 1
                    ELSE CHOOSE i \in stops : \A j \in stops : i <= j
         IN <<SubSeq(s, 1, end - 1)>> \o split(SubSeq(s, end, Len(s)))

\* .filter((term) => term.length > 2)
RECURSIVE filterLong(_)
filterLong(terms) ==
    IF terms = <<>> THEN <<>>
    ELSE IF Len(Head(terms)) > 2 THEN <<Head(terms)>> \o filterLong(Tail(terms))
    ELSE filterLong(Tail(terms))

\* query.toLowerCase().split(/\s+/).filter((term) => term.length > 2)
QueryTerms(q) == filterLong(split(toLowerCase(q)))

(***************************************************************************)
(* new RegExp(term, "g") over the alphabet: a letter matches itself, "+"   *)
(* repeats the letter before it one or more times (greedy), and a "+" with *)
(* nothing to repeat is a SyntaxError.  A blank never occurs in a term.    *)
(***************************************************************************)
RegExpThrows(term) ==
    \E i \in 1..Len(term) :
        /\ term[i] = "+"
        /\ (i = 1 \/ term[i - 1] = "+")

\* The position after the match of term[i..] at text position p, 0 if none.
RECURSIVE MatchEnd(_, _, _, _)
MatchEnd(term, i, s, p) ==
    IF i > Len(term) THEN p
    ELSE IF p > Len(s) \/ s[p] # term[i] THEN 0
    ELSE IF i < Len(term) /\ term[i + 1] = "+"
    THEN LET run == SetMax({n \in 1..(Len(s) - p + 1) :
                               \A k \in p..(p + n - 1) : s[k] = term[i]})
             ok == {n \in 1..run : MatchEnd(term, i + 2, s, p + n) # 0}
         IN IF ok = {} THEN 0 ELSE MatchEnd(term, i + 2, s, p + SetMax(ok))
    ELSE MatchEnd(term, i + 1, s, p + 1)

\* (lowerText.match(new RegExp(term, "g")) || []).length
RECURSIVE MatchCount(_, _, _)
MatchCount(term, s, from) ==
    LET starts == {p \in from..Len(s) : MatchEnd(term, 1, s, p) # 0}
    IN IF starts = {} THEN 0
       ELSE LET p == CHOOSE x \in starts : \A y \in starts : x <= y
            IN 1 + MatchCount(term, s, MatchEnd(term, 1, s, p))

(***************************************************************************)
(* calculateRelevanceScore.  The value is [threw, value]: threw is TRUE    *)
(* when the call raised instead of returning a number.                     *)
(***************************************************************************)
Returned(v) == [threw |-> FALSE, value |-> v]
Threw == [threw |-> TRUE, value |-> 0]

\* The loop over queryTerms: [threw, score, matchedTerms] after terms[i..].
RECURSIVE TermLoop(_, _, _, _, _)
TermLoop(terms, i, lowerText, sc, matched) ==
    IF i > Len(terms) THEN [threw |-> FALSE, score |-> sc, matchedTerms |-> matched]
    ELSE IF includes(lowerText, terms[i])
    THEN IF RegExpThrows(terms[i])
         THEN [threw |-> TRUE, score |-> sc, matchedTerms |-> matched + 1]
         ELSE TermLoop(terms, i + 1, lowerText,
                       sc + Min(MatchCount(terms[i], lowerText, 1), 3), matched + 1)
    ELSE TermLoop(terms, i + 1, lowerText, sc, matched)

ExactMatchBonus(lowerText, q) == IF includes(lowerText, toLowerCase(q)) THEN 10 ELSE 0

calculateRelevanceScore(t, q) ==
    IF t = <<>> \/ t = Undefined \/ q = <<>> \/ q = Undefined THEN Returned(0)
    ELSE LET lowerText == toLowerCase(t)
             queryTerms == QueryTerms(q)
         IN IF Len(queryTerms) = 0 THEN Returned(0)
            ELSE LET loop == TermLoop(queryTerms, 1, lowerText,
                                      ExactMatchBonus(lowerText, q), 0)
                 IN IF loop.threw THEN Threw
                    ELSE Returned(loop.score +
                                  (IF loop.matchedTerms = Len(queryTerms) THEN 5 ELSE 0))

(***************************************************************************)
(* JavaScript values.  A text field is a string or Undefined.  The summary *)
(* of a bill is [kind, text]: an object {text}, a string, or undefined.    *)
(***************************************************************************)
Truthy(t) == t # Undefined /\ t # <<>>

NoSummary == [kind |-> "undefined", text |-> Undefined]
SummaryObject(t) == [kind |-> "object", text |-> t]
SummaryString(t) == [kind |-> "string", text |-> t]

\* v?.text : only an object carries a text property
PropText(v) == IF v.kind = "object" THEN v.text ELSE Undefined

\* Array.prototype.slice(0, n)
slice(s, n) ==
    IF n >= 0 THEN SubSeq(s, 1, Min(n, Len(s)))
    ELSE SubSeq(s, 1, Len(s) + n)

\* Array.prototype.filter on the relevance floor
RECURSIVE filterFloor(_, _)
filterFloor(scored, floor) ==
    IF scored = <<>> THEN <<>>
    ELSE IF Head(scored).relevanceScore >= floor
    THEN <<Head(scored)>> \o filterFloor(Tail(scored), floor)
    ELSE filterFloor(Tail(scored), floor)

\* InsertByScore as a sort that puts a record ahead of the records it ties with
InsertByScoreUnstable(sorted, x) ==
    LET ahead == {i \in 1..Len(sorted) : sorted[i].relevanceScore > x.relevanceScore}
        k == IF ahead = {} THEN 0 ELSE SetMax(ahead)
    IN SubSeq(sorted, 1, k) \o <<x>> \o SubSeq(sorted, k + 1, Len(sorted))

\* One step of the stable sort: x goes behind every element that compares
\* <= 0 against it under (a, b) => b.relevanceScore - a.relevanceScore.
InsertByScore(sorted, x) ==
    LET ahead == {i \in 1..Len(sorted) : sorted[i].relevanceScore >= x.relevanceScore}
        k == IF ahead = {} THEN 0 ELSE SetMax(ahead)
    IN SubSeq(sorted, 1, k) \o <<x>> \o SubSeq(sorted, k + 1, Len(sorted))

\* scored.sort((a, b) => b.relevanceScore - a.relevanceScore), stable (ES2019)
RECURSIVE sortByScore(_)
sortByScore(scored) ==
    IF scored = <<>> THEN <<>>
    ELSE InsertByScore(sortByScore(SubSeq(scored, 1, Len(scored) - 1)),
                       scored[Len(scored)])

\* .map(({ relevanceScore, ...rec }) => rec)
stripScore(scored) == [i \in 1..Len(scored) |-> scored[i].rec]

(***************************************************************************)
(* scoreBillRelevance, in half points (so that the 1.5 weight of the       *)
(* latest action stays an integer): 2 * the JavaScript number.             *)
(***************************************************************************)
\* if (field) score += calculateRelevanceScore(field, query) * weight
FieldScore(field, q, weight) ==
    IF Truthy(field)
    THEN LET r == calculateRelevanceScore(field, q)
         IN [threw |-> r.threw, value |-> r.value * weight]
    ELSE Returned(0)

\* for (const term of queryTerms) if (name.includes(term)) { ...; break }
AnyTermIn(name, terms) ==
    \E i \in 1..Len(terms) : includes(toLowerCase(name), terms[i])

RECURSIVE SubjectBonus(_, _)
SubjectBonus(subjects, terms) ==
    IF subjects = <<>> THEN 0
    ELSE (IF AnyTermIn(Head(subjects), terms) THEN 20 ELSE 0)
         + SubjectBonus(Tail(subjects), terms)

\* query.toLowerCase() raises a TypeError on an undefined query
scoreBillRelevance(bill, q) ==
    IF q = Undefined THEN Threw ELSE
    LET queryTerms == QueryTerms(q)
        title == FieldScore(bill.title, q, 8)
        shortTitle == FieldScore(bill.shortTitle, q, 8)
        summary == FieldScore(PropText(bill.summary), q, 4)
        action == FieldScore(bill.latestAction, q, 3)
        subjects == IF bill.subjects # NoArray /\ Len(queryTerms) > 0
                    THEN 2 * SubjectBonus(bill.subjects, queryTerms)
                    ELSE 0
    IN IF title.threw \/ shortTitle.threw \/ summary.threw \/ action.threw THEN Threw
       ELSE Returned(title.value + shortTitle.value + summary.value
                     + action.value + subjects)

(***************************************************************************)
(* scoreDocumentRelevance.  An agency name that is no string (Undefined)   *)
(* makes agency.toLowerCase() raise a TypeError.                           *)
(***************************************************************************)
RECURSIVE AgencyBonus(_, _)
AgencyBonus(agencies, terms) ==
    IF agencies = <<>> THEN Returned(0)
    ELSE IF Head(agencies) = Undefined THEN Threw
    ELSE LET rest == AgencyBonus(Tail(agencies), terms)
         IN [threw |-> rest.threw,
             value |-> rest.value
                       + (IF AnyTermIn(Head(agencies), terms) THEN 10 ELSE 0)]

scoreDocumentRelevance(doc, q) ==
    LET title == FieldScore(doc.title, q, 3)
        abstract == FieldScore(doc.abstract, q, 2)
        agencies == IF doc.agency_names # NoArray
                    THEN IF q = Undefined THEN Threw
                         ELSE AgencyBonus(doc.agency_names, QueryTerms(q))
                    ELSE Returned(0)
    IN IF title.threw \/ abstract.threw \/ agencies.threw THEN Threw
       ELSE Returned(title.value + abstract.value + agencies.value)

(***************************************************************************)
(* The upstream reply to one HTTP request, as axios sees it.               *)
(*   kind "ok":   a 2xx response; field says whether response.data carries *)
(*                the member the method reads (bills, results, data, ...), *)
(*                items is that member;                                    *)
(*   kind "http": a response with an error status;                         *)
(*   kind "net":  no response (connection refused, timeout), with a code.  *)
(***************************************************************************)
Ok(items) == [kind |-> "ok", status |-> 200, code |-> "", field |-> TRUE, items |-> items]
OkNoField == [kind |-> "ok", status |-> 200, code |-> "", field |-> FALSE, items |-> <<>>]
HttpError(st) == [kind |-> "http", status |-> st, code |-> "", field |-> FALSE, items |-> <<>>]
NetError(code) == [kind |-> "net", status |-> 0, code |-> code, field |-> FALSE, items |-> <<>>]
NoReply == [kind |-> "none", status |-> 0, code |-> "", field |-> FALSE, items |-> <<>>]

Failures ==
    {HttpError(403), HttpError(404), HttpError(500),
     NetError("ECONNREFUSED"), NetError("ETIMEDOUT")}

\* axios.get rejects: no response, or a status its validateStatus refuses
\* (the default accepts 2xx only).
AxiosRejects(reply) == reply.kind = "net" \/ reply.kind = "http"

\* searchCode passes validateStatus: (status) => status < 500
AxiosRejectsAbove500(reply) ==
    reply.kind = "net" \/ (reply.kind = "http" /\ reply.status >= 500)

(***************************************************************************)
(* What an adapter method does: a body either returns a value or raises,   *)
(* and the method's catch block turns a raise into its fallback.           *)
(***************************************************************************)
Value(v) == [threw |-> FALSE, value |-> v]
Raise == [threw |-> TRUE, value |-> <<>>]

List(items) == [kind |-> "list", items |-> items]
Null == [kind |-> "null", items |-> <<>>]
Record(rec) == [kind |-> "record", items |-> <<rec>>]
Rejected == [kind |-> "rejected", items |-> <<>>]
Pending == [kind |-> "pending", items |-> <<>>]

\* catchEmptyList as a catch block that logs and throws the error again
catchAndRethrow(body) == IF body.threw THEN Rejected ELSE List(body.value)

\* try { return body } catch (error) { console.error(...); return [] }
catchEmptyList(body) == IF body.threw THEN List(<<>>) ELSE List(body.value)

\* try { return body } catch (error) { console.error(...); return null }
catchNull(body) == IF body.threw THEN Null ELSE Record(body.value)

\* response.data.<member> || []   and   response.data.<member>?.map(...) || []
memberOrEmpty(reply) == IF reply.field THEN reply.items ELSE <<>>

(***************************************************************************)
(* CongressAPI.searchBills                                                 *)
(***************************************************************************)
RelevanceFloor == 5

\* the over-fetch factors and caps of the two scored adapters
BillOverFetch == 5
BillFetchCap == 250
DocumentOverFetch == 3
DocumentFetchCap == 100

\* timeout: 30000 in the request of searchCode, in milliseconds
UsCodeTimeout == 30000

\* maximum: 50 in the input schemas of the tools that take a limit
SchemaMaxLimit == 50

\* the object literal of bills.map: summary becomes the summary's text
normalizeBill(bill) ==
    [number |-> bill.number,
     title |-> bill.title,
     shortTitle |-> bill.shortTitle,
     summary |-> IF PropText(bill.summary) = Undefined THEN NoSummary
                 ELSE SummaryString(PropText(bill.summary)),
     latestAction |-> bill.latestAction,
     subjects |-> bill.subjects]

\* the debug log of the top 5: b.title.substring(0, 40) raises a TypeError
\* on a bill without title
LogThrows(scored) ==
    \E i \in 1..Min(5, Len(scored)) : scored[i].rec.title = Undefined

\* a filter that returns the bills at or above the floor and nothing else
smartFilterFloorOnly(scored, l) ==
    stripScore(slice(filterFloor(scored, 2 * RelevanceFloor), l))

\* the smart filter of the sorted list
smartFilter(scored, l) ==
    LET highRelevance == filterFloor(scored, 2 * RelevanceFloor)
    IN IF Len(highRelevance) >= l THEN stripScore(slice(highRelevance, l))
       ELSE IF Len(scored) > 0 THEN stripScore(slice(scored, l))
       ELSE <<>>

searchBillsBody(q, l, reply) ==
    IF AxiosRejects(reply) THEN Raise
    ELSE LET raw == memberOrEmpty(reply)
             bills == [i \in 1..Len(raw) |-> normalizeBill(raw[i])]
             scores == [i \in 1..Len(bills) |-> scoreBillRelevance(bills[i], q)]
         IN IF \E i \in 1..Len(bills) : scores[i].threw THEN Raise
            ELSE LET scoredBills == sortByScore(
                         [i \in 1..Len(bills) |->
                             [rec |-> bills[i], relevanceScore |-> scores[i].value]])
                 IN IF LogThrows(scoredBills) THEN Raise
                    ELSE Value(smartFilter(scoredBills, l))

searchBills(q, l, reply) == catchEmptyList(searchBillsBody(q, l, reply))

(***************************************************************************)
(* FederalRegisterAPI.searchDocuments                                      *)
(***************************************************************************)
normalizeDocument(doc) ==
    [document_number |-> doc.document_number,
     title |-> doc.title,
     abstract |-> doc.abstract,
     agency_names |-> doc.agency_names]

\* relevantDocs, unless it is shorter than limit and there are candidates
floorOrTop(scored, l) ==
    LET relevantDocs == stripScore(slice(filterFloor(scored, RelevanceFloor), l))
    IN IF Len(relevantDocs) < l /\ Len(scored) > 0 THEN stripScore(slice(scored, l))
       ELSE relevantDocs

searchDocumentsBody(q, l, reply) ==
    IF AxiosRejects(reply) THEN Raise
    ELSE LET raw == memberOrEmpty(reply)
             documents == [i \in 1..Len(raw) |-> normalizeDocument(raw[i])]
             scores == [i \in 1..Len(documents) |->
                           scoreDocumentRelevance(documents[i], q)]
         IN IF \E i \in 1..Len(documents) : scores[i].threw THEN Raise
            ELSE Value(floorOrTop(
                     sortByScore([i \in 1..Len(documents) |->
                         [rec |-> documents[i], relevanceScore |-> scores[i].value]]),
                     l))

searchDocuments(q, l, reply) == catchEmptyList(searchDocumentsBody(q, l, reply))

(***************************************************************************)
(* The adapters that return the upstream list as it came: the mapped       *)
(* member, or [] when the member is missing.  Nothing truncates to limit.  *)
(***************************************************************************)
\* the object literal of an untruncated .map(): the fields are copied
normalizeItem(item) == [id |-> item.id]

mapItems(raw) == [i \in 1..Len(raw) |-> normalizeItem(raw[i])]

mapBills(raw) == [i \in 1..Len(raw) |-> normalizeBill(raw[i])]

mapDocuments(raw) == [i \in 1..Len(raw) |-> normalizeDocument(raw[i])]

getRecentBillsBody(reply) ==
    IF AxiosRejects(reply) THEN Raise ELSE Value(mapBills(memberOrEmpty(reply)))

getRecentBills(l, reply) == catchEmptyList(getRecentBillsBody(reply))

searchVotesBody(reply) ==
    IF AxiosRejects(reply) THEN Raise ELSE Value(mapItems(memberOrEmpty(reply)))

searchVotes(l, reply) == catchEmptyList(searchVotesBody(reply))

getCommitteesBody(reply) ==
    IF AxiosRejects(reply) THEN Raise ELSE Value(mapItems(memberOrEmpty(reply)))

getCommittees(reply) == catchEmptyList(getCommitteesBody(reply))

getRecentDocumentsBody(reply) ==
    IF AxiosRejects(reply) THEN Raise ELSE Value(mapDocuments(memberOrEmpty(reply)))

getRecentDocuments(l, reply) == catchEmptyList(getRecentDocumentsBody(reply))

\* a 4xx reply resolves (validateStatus) and is answered with []
searchCodeBody(reply) ==
    IF AxiosRejectsAbove500(reply) THEN Raise
    ELSE IF reply.status >= 400 THEN Value(<<>>)
    ELSE Value(mapItems(memberOrEmpty(reply)))

searchCode(q, l, reply) == catchEmptyList(searchCodeBody(reply))

\* comment.attributes.comment raises a TypeError on a comment without attributes
searchCommentsBody(reply) ==
    IF AxiosRejects(reply) THEN Raise
    ELSE LET raw == memberOrEmpty(reply)
         IN IF \E i \in 1..Len(raw) : ~raw[i].attributes THEN Raise
            ELSE Value(mapItems(raw))

searchComments(q, l, reply) == catchEmptyList(searchCommentsBody(reply))

(***************************************************************************)
(* CourtListenerAPI.  An upstream opinion record names a field in          *)
(* camelCase, in snake_case, in both or not at all.  The model keeps the   *)
(* id, one text field (caseName / case_name), one numeric field            *)
(* (citationCount / citation_count) and the URL (absoluteUrl /             *)
(* absolute_url); the other two-named fields of the object literal are     *)
(* written the same way.  A numeric field that is undefined is NoNumber.   *)
(***************************************************************************)
NoNumber == -1

\* a || b on two strings: "" and undefined are falsy
orText(a, b) == IF Truthy(a) THEN a ELSE b

\* a || b on two numbers: 0 and undefined are falsy
orNumber(a, b) == IF a # NoNumber /\ a # 0 THEN a ELSE b

\* ${opinion.id} for the ids of the model
DigitOf(n) == <<"0", "1", "2", "3", "4", "5", "6", "7", "8", "9">>[n + 1]

\* `https://www.courtlistener.com/opinion/${opinion.id}/`
synthesizedUrl(id) == <<"o", "/", DigitOf(id), "/">>

\* opinion.absoluteUrl || opinion.absolute_url || (opinion.id ? `...` : undefined)
absoluteUrl(opinion) ==
    orText(orText(opinion.absoluteUrl, opinion.absolute_url),
           IF opinion.id # NoNumber /\ opinion.id # 0
           THEN synthesizedUrl(opinion.id) ELSE Undefined)

\* the object literal of searchOpinions and getRecentOpinions
normalizeOpinion(opinion) ==
    [id |-> opinion.id,
     case_name |-> orText(opinion.caseName, opinion.case_name),
     citation_count |-> orNumber(opinion.citationCount, opinion.citation_count),
     url |-> absoluteUrl(opinion),
     absolute_url |-> absoluteUrl(opinion)]

mapOpinions(raw) == [i \in 1..Len(raw) |-> normalizeOpinion(raw[i])]

searchOpinionsBody(reply) ==
    IF AxiosRejects(reply) THEN Raise ELSE Value(mapOpinions(memberOrEmpty(reply)))

searchOpinions(q, l, reply) == catchEmptyList(searchOpinionsBody(reply))

getRecentOpinionsBody(reply) ==
    IF AxiosRejects(reply) THEN Raise ELSE Value(mapOpinions(memberOrEmpty(reply)))

getRecentOpinions(l, reply) == catchEmptyList(getRecentOpinionsBody(reply))

(***************************************************************************)
(* The single-record lookups.  reply.items holds the record (bill,         *)
(* document, section, opinion) when the payload carries it.                *)
(***************************************************************************)
\* const bill = response.data.bill; bill.congress raises when bill is missing
getBillDetailsBody(reply) ==
    IF AxiosRejects(reply) \/ ~reply.field THEN Raise
    ELSE Value(normalizeBill(reply.items[1]))

getBillDetails(reply) == catchNull(getBillDetailsBody(reply))

\* id 0: the id of no record of a reply
NoFields == [id |-> 0]

\* const doc = response.data: a payload without the fields gives a record
\* whose fields are all undefined
lookupBody(reply) ==
    IF AxiosRejects(reply) THEN Raise
    ELSE IF reply.field THEN Value(normalizeItem(reply.items[1]))
    ELSE Value(NoFields)

lookup(reply) == catchNull(lookupBody(reply))

getSection(reply) == lookup(reply)

\* a Federal Register payload without the fields
EmptyDocument ==
    [document_number |-> 0, title |-> Undefined, abstract |-> Undefined,
     agency_names |-> NoArray, sections |-> NoArray]

\* the object literal of getDocumentDetails: the fields of normalizeDocument
\* and sections: doc.sections?.map(...)
normalizeDocumentDetails(doc) ==
    [document_number |-> doc.document_number,
     title |-> doc.title,
     abstract |-> doc.abstract,
     agency_names |-> doc.agency_names,
     sections |-> doc.sections]

getDocumentDetailsBody(reply) ==
    IF AxiosRejects(reply) THEN Raise
    ELSE IF reply.field THEN Value(normalizeDocumentDetails(reply.items[1]))
    ELSE Value(normalizeDocumentDetails(EmptyDocument))

getDocumentDetails(reply) == catchNull(getDocumentDetailsBody(reply))

\* a CourtListener payload without the fields
EmptyOpinion ==
    [id |-> NoNumber, caseName |-> Undefined, case_name |-> Undefined,
     citationCount |-> NoNumber, citation_count |-> NoNumber,
     absoluteUrl |-> Undefined, absolute_url |-> Undefined]

\* the object literal of getOpinion: the camelCase names only
normalizeOpinionDetails(opinion) ==
    [id |-> opinion.id,
     case_name |-> opinion.caseName,
     citation_count |-> opinion.citationCount,
     url |-> opinion.absoluteUrl,
     absolute_url |-> opinion.absoluteUrl]

getOpinionBody(reply) ==
    IF AxiosRejects(reply) THEN Raise
    ELSE IF reply.field THEN Value(normalizeOpinionDetails(reply.items[1]))
    ELSE Value(normalizeOpinionDetails(EmptyOpinion))

getOpinion(reply) == catchNull(getOpinionBody(reply))

(***************************************************************************)
(* The adapter methods, by name.                                           *)
(***************************************************************************)
ScoredMethods == {"searchBills", "searchDocuments"}

LimitMethods ==
    {"searchBills", "searchDocuments", "searchCode", "searchComments",
     "searchOpinions", "searchVotes", "getRecentBills", "getRecentDocuments",
     "getRecentOpinions"}

QueryMethods ==
    {"searchBills", "searchDocuments", "searchCode", "searchComments", "searchOpinions"}

LookupMethods == {"getBillDetails", "getDocumentDetails", "getSection", "getOpinion"}

ListMethods == LimitMethods \cup {"getCommittees"}

Methods == ListMethods \cup LookupMethods

run(m, q, l, reply) ==
    CASE m = "searchBills" -> searchBills(q, l, reply)
      [] m = "searchDocuments" -> searchDocuments(q, l, reply)
      [] m = "searchCode" -> searchCode(q, l, reply)
      [] m = "searchComments" -> searchComments(q, l, reply)
      [] m = "searchOpinions" -> searchOpinions(q, l, reply)
      [] m = "searchVotes" -> searchVotes(l, reply)
      [] m = "getCommittees" -> getCommittees(reply)
      [] m = "getRecentBills" -> getRecentBills(l, reply)
      [] m = "getRecentDocuments" -> getRecentDocuments(l, reply)
      [] m = "getRecentOpinions" -> getRecentOpinions(l, reply)
      [] m = "getBillDetails" -> getBillDetails(reply)
      [] m = "getDocumentDetails" -> getDocumentDetails(reply)
      [] m = "getSection" -> getSection(reply)
      [] m = "getOpinion" -> getOpinion(reply)

(***************************************************************************)
(* The diagnostics of the catch blocks (console.error), by their kind.     *)
(***************************************************************************)
NoDiagnostic == "none"
CredentialRequired == "API key required"
GenericError == "API error"
ConnectionTimeout == "Connection timeout"
ConnectionRefused == "Connection refused"
StatusError == "API error: status"

\* whether the body of method m raises into the catch block of the method
raises(m, q, l, reply) ==
    CASE m = "searchBills" -> searchBillsBody(q, l, reply).threw
      [] m = "searchDocuments" -> searchDocumentsBody(q, l, reply).threw
      [] m = "searchCode" -> searchCodeBody(reply).threw
      [] m = "searchComments" -> searchCommentsBody(reply).threw
      [] m = "searchOpinions" -> searchOpinionsBody(reply).threw
      [] m = "searchVotes" -> searchVotesBody(reply).threw
      [] m = "getCommittees" -> getCommitteesBody(reply).threw
      [] m = "getRecentBills" -> getRecentBillsBody(reply).threw
      [] m = "getRecentDocuments" -> getRecentDocumentsBody(reply).threw
      [] m = "getRecentOpinions" -> getRecentOpinionsBody(reply).threw
      [] m = "getBillDetails" -> getBillDetailsBody(reply).threw
      [] m = "getDocumentDetails" -> getDocumentDetailsBody(reply).threw
      [] m = "getSection" -> lookupBody(reply).threw
      [] m = "getOpinion" -> getOpinionBody(reply).threw

\* credentialCatch reading error.status, which an axios error does not have
credentialCatchErrorStatus(reply) == GenericError

\* if (error.response?.status === 403) <API key required> else <API error>:
\* the catch block of searchVotes, getCommittees, searchOpinions and
\* getRecentOpinions
credentialCatch(reply) ==
    IF reply.kind = "http" /\ reply.status = 403 THEN CredentialRequired
    ELSE GenericError

\* the catch block of searchCode
usCodeCatch(reply) ==
    IF reply.code \in {"ETIMEDOUT", "ECONNABORTED"} THEN ConnectionTimeout
    ELSE IF reply.code = "ECONNREFUSED" THEN ConnectionRefused
    ELSE GenericError

\* what a call of method m logs as its error diagnostic
diagnostic(m, q, l, reply) ==
    IF raises(m, q, l, reply)
    THEN CASE m \in {"searchVotes", "getCommittees", "searchOpinions",
                     "getRecentOpinions"} -> credentialCatch(reply)
           [] m = "searchCode" -> usCodeCatch(reply)
           [] OTHER -> GenericError
    ELSE IF m = "searchCode" /\ reply.status >= 400 THEN StatusError
    ELSE NoDiagnostic

(***************************************************************************)
(* The classes of us-legal-apis.ts, the module index.ts imports USLegalAPI *)
(* from and the tool handler therefore calls.  Three of its methods differ *)
(* from the methods of the same name defined in index.ts: searchBills and  *)
(* searchDocuments send limit upstream and return the mapped records as    *)
(* the upstream sent them, searchCode has no timeout, rejects on every     *)
(* status outside 2xx and logs one diagnostic.                             *)
(***************************************************************************)
ImportedDiffers == {"searchBills", "searchDocuments", "searchCode"}

usLegalApisSearchBills(q, l, reply) ==
    catchEmptyList(IF AxiosRejects(reply) THEN Raise
                   ELSE Value(mapBills(memberOrEmpty(reply))))

usLegalApisSearchDocuments(q, l, reply) ==
    catchEmptyList(IF AxiosRejects(reply) THEN Raise
                   ELSE Value(mapDocuments(memberOrEmpty(reply))))

usLegalApisSearchCode(q, l, reply) ==
    catchEmptyList(IF AxiosRejects(reply) THEN Raise
                   ELSE Value(mapItems(memberOrEmpty(reply))))

\* the three methods as the imported module defines them
runImported(m, q, l, reply) ==
    CASE m = "searchBills" -> usLegalApisSearchBills(q, l, reply)
      [] m = "searchDocuments" -> usLegalApisSearchDocuments(q, l, reply)
      [] m = "searchCode" -> usLegalApisSearchCode(q, l, reply)

\* console.error("<source> API error:", error) in their catch blocks
diagnosticImported(m, reply) ==
    IF AxiosRejects(reply) THEN GenericError ELSE NoDiagnostic

(***************************************************************************)
(* Credentials.  Each of the three keys is a string or unset: "" for       *)
(* CongressAPI and RegulationsGovAPI (apiKey || process.env.X || ""),      *)
(* undefined for CourtListenerAPI (apiKey || process.env.X).               *)
(***************************************************************************)
aKey == <<"k">>

KeyConfigs ==
    [congress : {<<>>, aKey}, regulationsGov : {<<>>, aKey},
     courtListener : {Undefined, aKey}]

NoKeys == [congress |-> <<>>, regulationsGov |-> <<>>, courtListener |-> Undefined]

CongressMethods ==
    {"searchBills", "getBillDetails", "getRecentBills", "searchVotes", "getCommittees"}

RegulationsGovMethods == {"searchComments"}

CourtListenerMethods == {"searchOpinions", "getRecentOpinions", "getOpinion"}

CredentialedMethods == CongressMethods \cup RegulationsGovMethods \cup CourtListenerMethods

\* this.apiKey in method m (no key in an adapter without credential)
apiKey(m) ==
    IF m \in CongressMethods THEN keys.congress
    ELSE IF m \in RegulationsGovMethods THEN keys.regulationsGov
    ELSE IF m \in CourtListenerMethods THEN keys.courtListener
    ELSE Undefined

\* request with api_key: this.apiKey written into the parameters as it is
requestKeyAlways(m, key) ==
    [api_key |-> IF m \in CongressMethods \cup RegulationsGovMethods
                 THEN key ELSE Undefined,
     Authorization |-> IF m \in CourtListenerMethods /\ Truthy(key)
                       THEN <<"T", " ">> \o key ELSE Undefined]

\* the credential in the HTTP request of method m; Undefined: not sent.
\*   ...(this.apiKey && { api_key: this.apiKey })
\*   if (this.apiKey) headers["Authorization"] = `Token ${this.apiKey}`
request(m, key) ==
    [api_key |-> IF m \in CongressMethods \cup RegulationsGovMethods /\ Truthy(key)
                 THEN key ELSE Undefined,
     Authorization |-> IF m \in CourtListenerMethods /\ Truthy(key)
                       THEN <<"T", " ">> \o key ELSE Undefined]

(***************************************************************************)
(* The inputs of the model: queries, and the records an upstream reply     *)
(* carries.  A record of a reply is numbered by its position in the reply. *)
(***************************************************************************)
tAbbBaa == <<"A", "b", "b", " ", "b", "a", "a">>
tabb == <<"a", "b", "b">>
tbaa == <<"b", "a", "a">>
tb == <<"b">>
tPlus == <<"a", "+", "+">>

\* one term; two terms; a term that is no regular expression
Queries == {tabb, <<"a", "b", "b", " ", "b", "a", "a">>, tPlus}

Bill(title, shortTitle, summary, latestAction, subjects) ==
    [number |-> 0, title |-> title, shortTitle |-> shortTitle, summary |-> summary,
     latestAction |-> latestAction, subjects |-> subjects]

BillTemplates ==
    {Bill(tAbbBaa, Undefined, NoSummary, Undefined, NoArray),
     Bill(tabb, Undefined, NoSummary, Undefined, NoArray),
     Bill(tb, Undefined, NoSummary, tbaa, NoArray),
     Bill(tb, tabb, NoSummary, Undefined, <<tb>>),
     Bill(tb, Undefined, SummaryObject(tabb), Undefined, NoArray),
     Bill(Undefined, Undefined, NoSummary, Undefined, <<tabb>>),
     Bill(tPlus, Undefined, NoSummary, Undefined, NoArray)}

\* sections: the titles of the sections of the document (NoArray if none)
Document(title, abstract, agency_names, sections) ==
    [document_number |-> 0, title |-> title, abstract |-> abstract,
     agency_names |-> agency_names, sections |-> sections]

DocumentTemplates ==
    {Document(tAbbBaa, Undefined, <<>>, <<tb>>),
     Document(tabb, Undefined, NoArray, NoArray),
     Document(tb, tbaa, <<tb>>, NoArray),
     Document(tb, Undefined, <<tabb, tb>>, NoArray),
     Document(tb, tabb, <<Undefined>>, NoArray),
     Document(tPlus, Undefined, <<>>, NoArray)}

Opinion(id, caseName, case_name, citationCount, citation_count, absUrl, abs_url) ==
    [id |-> id, caseName |-> caseName, case_name |-> case_name,
     citationCount |-> citationCount, citation_count |-> citation_count,
     absoluteUrl |-> absUrl, absolute_url |-> abs_url]

\* both conventions; snake_case only; a falsy camelCase value beside a
\* snake_case value, no URL; camelCase only with id 0 and no URL
OpinionTemplates ==
    {Opinion(7, tabb, tbaa, 2, 3, tabb, tbaa),
     Opinion(7, Undefined, tbaa, NoNumber, 3, Undefined, tbaa),
     Opinion(7, <<>>, tbaa, 0, 3, Undefined, Undefined),
     Opinion(0, tabb, Undefined, 2, NoNumber, Undefined, Undefined)}

ItemTemplates == {[id |-> 0, attributes |-> TRUE]}

CommentTemplates == {[id |-> 0, attributes |-> TRUE], [id |-> 0, attributes |-> FALSE]}

\* the replies of searchAll's four sources draw on fewer templates
AggBillTemplates ==
    {Bill(tAbbBaa, Undefined, NoSummary, Undefined, NoArray),
     Bill(tb, Undefined, NoSummary, tbaa, NoArray)}

AggDocumentTemplates ==
    {Document(tAbbBaa, Undefined, <<>>, <<tb>>)}

Numbered(m, rec, i) ==
    IF m \in {"searchBills", "getRecentBills", "getBillDetails"}
    THEN [rec EXCEPT !.number = i]
    ELSE IF m \in {"searchDocuments", "getRecentDocuments", "getDocumentDetails"}
    THEN [rec EXCEPT !.document_number = i]
    ELSE IF m \in CourtListenerMethods THEN rec
    ELSE [rec EXCEPT !.id = i]

\* the lists of at most n records over the templates
ListsOver(m, templates, n) ==
    UNION {{[i \in 1..k |-> Numbered(m, f[i], i)] : f \in [1..k -> templates]} : k \in 0..n}

Templates(m) ==
    CASE m = "searchBills" -> BillTemplates
      [] m = "searchDocuments" -> DocumentTemplates
      [] m \in {"getRecentBills", "getBillDetails"} -> AggBillTemplates
      [] m \in {"getRecentDocuments", "getDocumentDetails"} -> AggDocumentTemplates
      [] m \in CourtListenerMethods -> OpinionTemplates
      [] m = "searchComments" -> CommentTemplates
      [] OTHER -> ItemTemplates

AggTemplates(m) ==
    CASE m \in {"searchBills", "getRecentBills"} -> AggBillTemplates
      [] m \in {"searchDocuments", "getRecentDocuments"} -> AggDocumentTemplates
      [] m \in CourtListenerMethods -> {Opinion(7, tabb, tbaa, 2, 3, tabb, tbaa)}
      [] OTHER -> ItemTemplates

\* what the upstream may answer to a call of method m
Replies(m) ==
    Failures \cup {OkNoField} \cup
    (IF m \in LookupMethods
     THEN {Ok(<<Numbered(m, t, 1)>>) : t \in Templates(m)}
     ELSE {Ok(items) : items \in ListsOver(m, Templates(m), MaxCand)})

AggReplies(m) ==
    {HttpError(500), OkNoField} \cup
    {Ok(items) : items \in ListsOver(m, AggTemplates(m), MaxAllCand)}

\* the upstream replies to the adapter calls of a tool call
GatewayReplies(m) ==
    {HttpError(403), OkNoField}
    \cup {Ok(<<Numbered(m, t, 1)>>) : t \in AggTemplates(m)}
    \cup (IF m = "searchBills"
          THEN {Ok(<<Numbered(m, Bill(tb, Undefined, NoSummary, tbaa, NoArray), 1),
                     Numbered(m, Bill(tAbbBaa, Undefined, NoSummary, Undefined,
                                      NoArray), 2)>>)}
          ELSE IF m = "searchDocuments"
          THEN {Ok(<<Numbered(m, Document(tb, tbaa, <<tb>>, NoArray), 1),
                     Numbered(m, Document(tAbbBaa, Undefined, <<>>, <<tb>>), 2)>>)}
          ELSE {})

(***************************************************************************)
(* The scorer on its own: every text and query within the bounds.          *)
(***************************************************************************)
NoScore == [threw |-> FALSE, value |-> -1]
Unresolved == [state |-> "pending", value |-> <<>>]
NoEntity == [kind |-> "none"]
\* request.params.arguments: undefined, or an object with query and limit,
\* each of them possibly undefined
NoArguments == [given |-> FALSE, query |-> Undefined, limit |-> NoNumber]
Arguments(q, l) == [given |-> TRUE, query |-> q, limit |-> l]

NoTool == [name |-> "", arguments |-> NoArguments]
NoResponse == [kind |-> "none", text |-> "", name |-> "", found |-> 0]

\* no tool call: the adapters were constructed without credentials
GatewayIdle ==
    /\ keys = NoKeys
    /\ tool = NoTool
    /\ response = NoResponse

ServerIdle ==
    /\ op = "idle"
    /\ query = <<>>
    /\ limit = 0
    /\ calls = <<>>
    /\ agg = Unresolved

InitScore ==
    /\ text \in StringsUpTo(MaxTextLen)
    /\ squery \in StringsUpTo(MaxQueryLen)
    /\ score = NoScore
    /\ entity = NoEntity
    /\ ServerIdle
    /\ GatewayIdle

Score ==
    /\ score = NoScore
    /\ score' = calculateRelevanceScore(text, squery)
    /\ UNCHANGED <<text, squery, entity, serverVars, gatewayVars>>

NextScore == Score

SpecScore == InitScore /\ [][NextScore]_vars

(***************************************************************************)
(* The record scorers on their own: scoreBillRelevance and                 *)
(* scoreDocumentRelevance on every bill and document over the field values *)
(* below, for every query of Queries.                                      *)
(***************************************************************************)
SubjectLists ==
    {NoArray, <<>>, <<tb>>, <<tabb>>, <<tAbbBaa>>, <<tabb, tb, tbaa>>, <<tPlus>>}

ScoredBills ==
    {Bill(title, shortTitle, summary, latestAction, subjects) :
        title \in {Undefined, tabb, tPlus},
        shortTitle \in {Undefined, tAbbBaa},
        summary \in {NoSummary, SummaryObject(tabb)},
        latestAction \in {Undefined, tbaa},
        subjects \in SubjectLists}

AgencyLists ==
    {NoArray, <<>>, <<tb>>, <<tabb>>, <<tAbbBaa>>, <<tabb, tb, tbaa>>, <<Undefined>>}

ScoredDocuments ==
    {Document(title, abstract, agency_names, NoArray) :
        title \in {Undefined, tabb, tPlus},
        abstract \in {Undefined, tAbbBaa},
        agency_names \in AgencyLists}

InitRecord ==
    /\ text = <<>>
    /\ squery \in Queries
    /\ score = NoScore
    /\ entity \in {[kind |-> "bill", rec |-> b] : b \in ScoredBills}
                  \cup {[kind |-> "document", rec |-> d] : d \in ScoredDocuments}
    /\ ServerIdle
    /\ GatewayIdle

ScoreBill ==
    /\ entity.kind = "bill"
    /\ score = NoScore
    /\ score' = scoreBillRelevance(entity.rec, squery)
    /\ UNCHANGED <<text, squery, entity, serverVars, gatewayVars>>

ScoreDocument ==
    /\ entity.kind = "document"
    /\ score = NoScore
    /\ score' = scoreDocumentRelevance(entity.rec, squery)
    /\ UNCHANGED <<text, squery, entity, serverVars, gatewayVars>>

NextRecord == ScoreBill \/ ScoreDocument

SpecRecord == InitRecord /\ [][NextRecord]_vars

(***************************************************************************)
(* The server: one operation at a time, an adapter method or searchAll.    *)
(* A call issues its HTTP request when it is made and stays pending until  *)
(* the upstream replies; then the method runs to its return.               *)
(***************************************************************************)
\* the count a method that takes a limit asks its upstream for, sent as written
fetchLimitIsLimit(m, l) == l

\* const fetchLimit = Math.min(limit * 5, 250) in searchBills,
\* Math.min(limit * 3, 100) in searchDocuments; the other methods send limit
fetchLimit(m, l) ==
    IF m = "searchBills" THEN Min(l * BillOverFetch, BillFetchCap)
    ELSE IF m = "searchDocuments" THEN Min(l * DocumentOverFetch, DocumentFetchCap)
    ELSE l

\* a method whose catch block issues the request again
requestsAfterRetry(sent, reply) == IF AxiosRejects(reply) THEN sent + 1 ELSE sent

\* the requests an invocation has issued once its await has returned or thrown:
\* the one axios.get of the method, no catch block issuing another
requestsAfter(sent, reply) == sent

Call(m, l) == [method |-> m, limit |-> l, state |-> "pending",
               request |-> request(m, apiKey(m)),
               fetch |-> fetchLimit(m, l), sent |-> 1,
               reply |-> NoReply, result |-> Pending, log |-> NoDiagnostic]

\* perSourceLimit as Math.floor(limit / 4)
perSourceFloor(l) == l \div 4

\* Math.ceil(limit / 4)
perSourceLimit(l) == (l + 3) \div 4

\* the array handed to Promise.all
fanOut(l) ==
    <<Call("searchBills", perSourceLimit(l)),
      Call("searchDocuments", perSourceLimit(l)),
      Call("searchCode", perSourceLimit(l)),
      Call("searchComments", perSourceLimit(l))>>

\* a combinator that resolves with the first call to settle
anySettled(cs) == \E i \in 1..Len(cs) : cs[i].state = "settled"

\* Promise.all: rejects as soon as one call has rejected, resolves to the
\* results in array order once all have resolved
allSettled(cs) == \A i \in 1..Len(cs) : cs[i].state = "settled"

anyRejected(cs) == \E i \in 1..Len(cs) : cs[i].result.kind = "rejected"

\* aggregate with the last two names of the destructuring swapped
aggregateSwapped(cs) ==
    [state |-> "resolved",
     value |-> [bills |-> cs[1].result.items,
                regulations |-> cs[2].result.items,
                codeSections |-> cs[4].result.items,
                comments |-> cs[3].result.items]]

\* return { bills, regulations, codeSections, comments }
aggregate(cs) ==
    [state |-> "resolved",
     value |-> [bills |-> cs[1].result.items,
                regulations |-> cs[2].result.items,
                codeSections |-> cs[3].result.items,
                comments |-> cs[4].result.items]]

AggRejected == [state |-> "rejected", value |-> <<>>]

Init ==
    /\ text = <<>>
    /\ squery = <<>>
    /\ score = NoScore
    /\ entity = NoEntity
    /\ ServerIdle
    /\ GatewayIdle

\* a caller invokes one adapter method
CallAdapter ==
    /\ op = "idle"
    /\ \E m \in Methods :
        /\ op' = m
        /\ query' \in (IF m \in QueryMethods THEN Queries ELSE {<<>>})
        /\ limit' \in (IF m \in ScoredMethods THEN 1..MaxLimit \cup {SchemaMaxLimit}
                       ELSE IF m \in LimitMethods THEN 1..MaxLimit ELSE {0})
        /\ calls' = <<Call(m, limit')>>
    /\ UNCHANGED <<scorerVars, agg, gatewayVars>>

\* a caller invokes searchAll
CallSearchAll ==
    /\ op = "idle"
    /\ op' = "searchAll"
    /\ query' = <<"a", "b", "b", " ", "b", "a", "a">>
    /\ limit' \in 1..MaxAllLimit
    /\ calls' = fanOut(limit')
    /\ UNCHANGED <<scorerVars, agg, gatewayVars>>

\* the upstream answers a pending call and the method runs to its return: the
\* method of index.ts for a direct call, the method of the imported module
\* for a call the tool handler made
Respond ==
    /\ \E i \in 1..Len(calls) :
        /\ calls[i].state = "pending"
        /\ \E reply \in (IF tool # NoTool THEN GatewayReplies(calls[i].method)
                         ELSE IF op = "searchAll" THEN AggReplies(calls[i].method)
                         ELSE Replies(calls[i].method)) :
            calls' = [calls EXCEPT ![i] =
                         [@ EXCEPT !.state = "settled",
                                   !.reply = reply,
                                   !.sent = requestsAfter(calls[i].sent, reply),
                                   !.result =
                                       IF tool # NoTool
                                          /\ calls[i].method \in ImportedDiffers
                                       THEN runImported(calls[i].method, query,
                                                        calls[i].limit, reply)
                                       ELSE run(calls[i].method, query,
                                                calls[i].limit, reply),
                                   !.log =
                                       IF tool # NoTool
                                          /\ calls[i].method \in ImportedDiffers
                                       THEN diagnosticImported(calls[i].method,
                                                               reply)
                                       ELSE diagnostic(calls[i].method, query,
                                                       calls[i].limit, reply)]]
    /\ UNCHANGED <<scorerVars, op, query, limit, agg, gatewayVars>>

\* the await of Promise.all returns and searchAll builds its result
ResolveSearchAll ==
    /\ op = "searchAll"
    /\ agg.state = "pending"
    /\ anyRejected(calls) \/ allSettled(calls)
    /\ agg' = IF anyRejected(calls) THEN AggRejected ELSE aggregate(calls)
    /\ UNCHANGED <<scorerVars, op, query, limit, calls, gatewayVars>>

Next == CallAdapter \/ CallSearchAll \/ Respond \/ ResolveSearchAll

Spec == Init /\ [][Next]_vars

(***************************************************************************)
(* Upstreams that never respond.  An axios request without a timeout       *)
(* option waits for its response without bound (the default timeout is 0); *)
(* only searchCode passes { timeout: 30000 }.                              *)
(***************************************************************************)

\* the timeout option of the request a method issues, 0 for none
timeoutOf(m) == IF m = "searchCode" THEN UsCodeTimeout ELSE 0

\* the upstream of a pending call will never send its response
Stall ==
    /\ tool = NoTool
    /\ \E i \in 1..Len(calls) :
        /\ calls[i].state = "pending"
        /\ calls' = [calls EXCEPT ![i] = [@ EXCEPT !.state = "stalled"]]
    /\ UNCHANGED <<scorerVars, op, query, limit, agg, gatewayVars>>

\* the timeout of a request expires: axios rejects with code ECONNABORTED and
\* the method, searchCode alone having a timeout, runs its catch block
Timeout ==
    /\ \E i \in 1..Len(calls) :
        /\ calls[i].state = "stalled"
        /\ timeoutOf(calls[i].method) > 0
        /\ calls' = [calls EXCEPT ![i] =
                         [@ EXCEPT !.state = "settled",
                                   !.reply = NetError("ECONNABORTED"),
                                   !.result = searchCode(query, calls[i].limit,
                                                         NetError("ECONNABORTED")),
                                   !.log = usCodeCatch(NetError("ECONNABORTED"))]]
    /\ UNCHANGED <<scorerVars, op, query, limit, agg, gatewayVars>>

NextLive ==
    CallAdapter \/ CallSearchAll \/ Respond \/ Stall \/ Timeout \/ ResolveSearchAll

\* no call stays pending for ever
Answered == \A i \in 1..Len(calls) : calls[i].state # "pending"

\* an upstream either answers in the end or never does, an armed timer fires,
\* and the continuation of a settled Promise.all is run
SpecLive ==
    /\ Init
    /\ [][NextLive]_vars
    /\ []<>Answered
    /\ WF_vars(Timeout)
    /\ WF_vars(ResolveSearchAll)

\* the i-th call of the operation has returned
Settled(i) == i \in 1..Len(calls) /\ calls[i].state = "settled"

(***************************************************************************)
(* The tool gateway: the call-tool handler of the MCP server.  A tool call *)
(* names a tool and carries arguments, or none.  The handler runs to the   *)
(* await of its adapter call, and from the adapter's return to its own.    *)
(***************************************************************************)
\* the case labels of the handler's switch
ToolNames ==
    {"search_congress_bills", "search_federal_register", "search_us_code",
     "search_public_comments", "search_all_legal", "get_recent_bills",
     "get_recent_regulations", "search_court_opinions",
     "get_recent_court_opinions", "search_congress_votes",
     "get_congress_committees"}

\* the tool names of the README, under Available Tools
ReadmeTools ==
    {"search-congress-bills", "search-federal-register", "search-us-code",
     "search-public-comments", "search-us-legal", "get-recent-bills",
     "get-recent-regulations", "search-court-opinions",
     "get-recent-court-opinions", "search-congress-votes",
     "get-congress-committees", "get-legal-sources"}

\* the operation a case of the switch calls
ToolMethod(name) ==
    CASE name = "search_congress_bills" -> "searchBills"
      [] name = "search_federal_register" -> "searchDocuments"
      [] name = "search_us_code" -> "searchCode"
      [] name = "search_public_comments" -> "searchComments"
      [] name = "search_all_legal" -> "searchAll"
      [] name = "get_recent_bills" -> "getRecentBills"
      [] name = "get_recent_regulations" -> "getRecentDocuments"
      [] name = "search_court_opinions" -> "searchOpinions"
      [] name = "get_recent_court_opinions" -> "getRecentOpinions"
      [] name = "search_congress_votes" -> "searchVotes"
      [] name = "get_congress_committees" -> "getCommittees"

\* the default the input schemas and the method signatures give limit
DefaultLimit == 20

\* limit: number = 20 : the default parameter value replaces undefined
defaultLimit(l) == IF l = NoNumber THEN DefaultLimit ELSE l

\* the content of the handler's result: one text
Text(t, name, found) == [kind |-> "text", text |-> t, name |-> name, found |-> found]

\* handlerCatch as a catch block that throws the error again
handlerRethrow(name) == [kind |-> "threw", text |-> "", name |-> name, found |-> 0]

\* catch (error) { return { content: [{ type: "text",
\*                  text: `Error executing tool ${name}: ...` }] } }
handlerCatch(name) == Text("Error executing tool", name, 0)

\* default: `Unknown tool: ${name}`
unknownTool(name) == Text("Unknown tool", name, 0)

\* the text of a case: the number of results found and the results
renderResults(name, found) == Text("results", name, found)

\* the tool calls of the model: every tool of the switch and of the README,
\* and a name that is neither
CalledNames == ToolNames \cup ReadmeTools \cup {"no_such_tool"}

CalledArguments ==
    {NoArguments, Arguments(Undefined, NoNumber)}
    \cup {Arguments(tAbbBaa, l) :
            l \in {NoNumber, 0, 1, SchemaMaxLimit, SchemaMaxLimit + 1}}

InitGateway ==
    /\ text = <<>>
    /\ squery = <<>>
    /\ score = NoScore
    /\ entity = NoEntity
    /\ ServerIdle
    /\ keys \in KeyConfigs
    /\ tool = NoTool
    /\ response = NoResponse

\* the calls as the methods of the imported module issue them: every method
\* sends its limit upstream
importedCalls(cs) == [i \in 1..Len(cs) |-> [cs[i] EXCEPT !.fetch = cs[i].limit]]

\* the handler is called and runs to its return or to the await of its case
CallTool ==
    /\ tool = NoTool
    /\ op = "idle"
    /\ \E name \in CalledNames, args \in CalledArguments :
        /\ tool' = [name |-> name, arguments |-> args]
        /\ IF name \notin ToolNames
           THEN /\ response' = unknownTool(name)
                /\ UNCHANGED serverVars
           ELSE IF ~args.given
           THEN /\ response' = handlerCatch(name)
                /\ UNCHANGED serverVars
           ELSE /\ response' = NoResponse
                /\ op' = ToolMethod(name)
                /\ query' = (IF op' \in QueryMethods \cup {"searchAll"}
                             THEN args.query ELSE <<>>)
                /\ limit' = (IF op' \in LimitMethods \cup {"searchAll"}
                             THEN defaultLimit(args.limit) ELSE 0)
                /\ calls' = (IF op' = "searchAll" THEN importedCalls(fanOut(limit'))
                             ELSE importedCalls(<<Call(op', limit')>>))
                /\ UNCHANGED agg
    /\ UNCHANGED <<scorerVars, keys>>

\* the awaited operation has returned and the handler renders its result
RenderTool ==
    /\ tool # NoTool
    /\ response = NoResponse
    /\ IF op = "searchAll" THEN agg.state # "pending" ELSE Settled(1)
    /\ response' =
          IF op = "searchAll"
          THEN IF agg.state = "rejected" THEN handlerCatch(tool.name)
               ELSE renderResults(tool.name,
                        Len(agg.value.bills) + Len(agg.value.regulations)
                        + Len(agg.value.codeSections) + Len(agg.value.comments))
          ELSE IF calls[1].result.kind = "rejected" THEN handlerCatch(tool.name)
          ELSE renderResults(tool.name, Len(calls[1].result.items))
    /\ UNCHANGED <<scorerVars, serverVars, keys, tool>>

NextGateway == CallTool \/ Respond \/ ResolveSearchAll \/ RenderTool

SpecGateway == InitGateway /\ [][NextGateway]_vars

(***************************************************************************)
(* The claims.                                                             *)
(***************************************************************************)
\* a lone call of method m has returned
Returns(m) == op = m /\ Settled(1)

\* the relevance score a scored method ranks a record by: [threw, value]
RecScore(m, rec) ==
    IF m = "searchBills" THEN scoreBillRelevance(rec, query)
    ELSE scoreDocumentRelevance(rec, query)

\* the position of a record in the upstream reply
RecPos(m, rec) == IF m = "searchBills" THEN rec.number ELSE rec.document_number

\* the floor in the unit of RecScore (half points for bills)
Floor(m) == IF m = "searchBills" THEN 2 * RelevanceFloor ELSE RelevanceFloor

\* the candidates of the reply of the lone call, normalized
Candidates(m) ==
    IF m = "searchBills" THEN mapBills(memberOrEmpty(calls[1].reply))
    ELSE mapDocuments(memberOrEmpty(calls[1].reply))

AllScored(m) ==
    \A i \in 1..Len(Candidates(m)) : ~RecScore(m, Candidates(m)[i]).threw

\* C1: searchBills and searchDocuments return exactly min(limit, n) records
\* whenever the upstream reply carries n >= 1 candidates.
C1_ReturnsMinLimitCandidates ==
    \A m \in ScoredMethods :
        (Returns(m) /\ calls[1].reply.kind = "ok" /\ Len(calls[1].reply.items) >= 1)
        => Len(calls[1].result.items) = Min(calls[1].limit, Len(calls[1].reply.items))

\* C2: when at least limit candidates score >= 5, searchBills and
\* searchDocuments return limit records, each scoring >= 5 and each scoring
\* at least as much as every candidate that is not returned.
C2_TopLimitAboveFloor ==
    \A m \in ScoredMethods :
        (/\ Returns(m)
         /\ AllScored(m)
         /\ Cardinality({i \in 1..Len(Candidates(m)) :
                RecScore(m, Candidates(m)[i]).value >= Floor(m)}) >= calls[1].limit)
        => LET res == calls[1].result.items
               cand == Candidates(m)
               kept == {RecPos(m, res[i]) : i \in 1..Len(res)}
           IN /\ Len(res) = calls[1].limit
              /\ \A i \in 1..Len(res) :
                    /\ RecScore(m, res[i]).value >= Floor(m)
                    /\ \A j \in 1..Len(cand) :
                          RecPos(m, cand[j]) \notin kept
                          => RecScore(m, cand[j]).value <= RecScore(m, res[i]).value

\* C3: every adapter method that takes a limit returns at most limit records.
C3_AtMostLimit ==
    \A m \in LimitMethods :
        Returns(m) => Len(calls[1].result.items) <= calls[1].limit

\* C4: the list searchBills and searchDocuments return is in non-increasing
\* order of relevance score, and records of equal score keep the order of
\* the upstream reply.
C4_SortedStable ==
    \A m \in ScoredMethods :
        Returns(m) =>
            LET res == calls[1].result.items
            IN \A i, j \in 1..Len(res) :
                  i < j =>
                    /\ RecScore(m, res[i]).value >= RecScore(m, res[j]).value
                    /\ RecScore(m, res[i]).value = RecScore(m, res[j]).value
                       => RecPos(m, res[i]) < RecPos(m, res[j])

\* C4 witness: searchBills has returned three records, two of equal score in
\* upstream order behind a record the sort moved ahead of an earlier one.
C4_Witness ==
    /\ Returns("searchBills")
    /\ LET res == calls[1].result.items
       IN /\ Len(res) = 3
          /\ \E i, j \in 1..3 :
                /\ i < j
                /\ RecScore("searchBills", res[i]).value
                   = RecScore("searchBills", res[j]).value
          /\ \E i, j \in 1..3 :
                /\ i < j
                /\ res[i].number > res[j].number

\* the upstream failed a call: no usable reply, or a payload without the list
UpstreamFailed(c) ==
    \/ c.reply.kind \in {"http", "net"}
    \/ c.method \in ListMethods /\ c.reply.kind = "ok" /\ ~c.reply.field

\* C5: no adapter method rejects; on an upstream failure a list-returning
\* method resolves to the empty list and a single-record lookup to null.
C5_FailuresDegrade ==
    \A i \in 1..Len(calls) :
        Settled(i) =>
            /\ calls[i].result.kind # "rejected"
            /\ UpstreamFailed(calls[i]) =>
                  IF calls[i].method \in LookupMethods
                  THEN calls[i].result.kind = "null"
                  ELSE calls[i].result.kind = "list" /\ calls[i].result.items = <<>>

\* C5 witness: a list-returning method has returned after an upstream failure.
C5_Witness ==
    /\ op \in ListMethods
    /\ Settled(1)
    /\ calls[1].reply.kind \in {"http", "net"}
    /\ calls[1].result.kind = "list"

\* the key of searchAll's result that holds the list of method m
SourceKey(m) ==
    CASE m = "searchBills" -> "bills"
      [] m = "searchDocuments" -> "regulations"
      [] m = "searchCode" -> "codeSections"
      [] m = "searchComments" -> "comments"

\* C6: searchAll resolves (never rejects) to a structure of exactly the four
\* keys; each key holds the list its source returned, which is empty for a
\* source that failed.
C6_FourKeysWhateverFails ==
    agg.state # "pending" =>
        /\ agg.state = "resolved"
        /\ DOMAIN agg.value = {"bills", "regulations", "codeSections", "comments"}
        /\ \A i \in 1..Len(calls) :
              /\ agg.value[SourceKey(calls[i].method)] = calls[i].result.items
              /\ UpstreamFailed(calls[i])
                 => agg.value[SourceKey(calls[i].method)] = <<>>

\* C6 witness: searchAll has resolved with one source failed and two other
\* sources holding lists of different lengths.
C6_Witness ==
    /\ agg.state = "resolved"
    /\ calls[1].reply.kind = "http"
    /\ Len(agg.value.codeSections) = 2
    /\ Len(agg.value.comments) = 1

C8_LimitIsPerSource ==
    op = "searchAll" => \A i \in 1..Len(calls) : calls[i].limit = limit

\* C9: calculateRelevanceScore gives a non-negative number for every text
\* and query, and 0 when the text or the query is empty.
C9_ScoreIsNonNegativeNumber ==
    score # NoScore =>
        /\ ~score.threw
        /\ score.value >= 0
        /\ (text = <<>> \/ squery = <<>>) => score.value = 0

\* C10: for a non-empty query and a text that contains it verbatim, case
\* ignored, calculateRelevanceScore gives at least 10.
C10_VerbatimScoresTen ==
    (/\ score # NoScore
     /\ squery # <<>>
     /\ includes(toLowerCase(text), toLowerCase(squery)))
    => (~score.threw /\ score.value >= 10)

\* the text with one more occurrence of a term added at its end
withOccurrence(t, term) == t \o <<" ">> \o term

\* the occurrences of the string term in s, from left to right, no overlap
RECURSIVE Occurrences(_, _)
Occurrences(term, s) ==
    IF Len(s) < Len(term) THEN 0
    ELSE IF SubSeq(s, 1, Len(term)) = term
    THEN 1 + Occurrences(term, SubSeq(s, Len(term) + 1, Len(s)))
    ELSE Occurrences(term, Tail(s))

\* C11: for a fixed query, a text with one more occurrence of a query term
\* scores at least as much as the text without it, and a single query term
\* contributes min(number of its occurrences, 3) to the score.
C11_MoreOccurrencesNeverLess ==
    score # NoScore =>
        \A k \in 1..Len(QueryTerms(squery)) :
            LET term == QueryTerms(squery)[k]
                n == Occurrences(term, toLowerCase(text))
                more == calculateRelevanceScore(withOccurrence(text, term), squery)
            IN /\ ~score.threw
               /\ ~more.threw
               /\ more.value >= score.value
               /\ Len(QueryTerms(squery)) = 1
                  => score.value = ExactMatchBonus(toLowerCase(text), squery)
                                   + Min(n, 3) + (IF n > 0 THEN 5 ELSE 0)

\* whether a subject tag contains a query term
TagMatches(tag, q) == AnyTermIn(tag, QueryTerms(q))

\* the subject tags of a list that contain no query term
RECURSIVE otherTags(_, _)
otherTags(subjects, q) ==
    IF subjects = <<>> THEN <<>>
    ELSE IF TagMatches(Head(subjects), q) THEN otherTags(Tail(subjects), q)
    ELSE <<Head(subjects)>> \o otherTags(Tail(subjects), q)

\* C12: for a query with a term longer than 2 characters, a bill scores 20
\* (40 half points) per subject tag that contains a query term above the same
\* bill without those tags, whatever the number of terms in a tag.
C12_MatchingTagAddsTwenty ==
    (/\ entity.kind = "bill"
     /\ score # NoScore
     /\ Len(QueryTerms(squery)) > 0
     /\ entity.rec.subjects # NoArray
     /\ \E i \in 1..Len(entity.rec.subjects) :
            TagMatches(entity.rec.subjects[i], squery))
    => LET tags == entity.rec.subjects
           rest == otherTags(tags, squery)
           bare == scoreBillRelevance([entity.rec EXCEPT !.subjects = rest], squery)
       IN /\ ~score.threw
          /\ ~bare.threw
          /\ score.value = bare.value + 2 * 20 * (Len(tags) - Len(rest))

\* the camelCase value when the record carries it, else the snake_case value
firstCarriedText(camel, snake) == IF camel # Undefined THEN camel ELSE snake

firstCarriedNumber(camel, snake) == IF camel # NoNumber THEN camel ELSE snake

\* C13: in searchOpinions, getRecentOpinions and getOpinion the canonical
\* field of a two-named upstream field is the camelCase value whenever the
\* record carries one (0 and "" included), and the snake_case value otherwise.
C13_CamelCaseElseSnakeCase ==
    \A m \in CourtListenerMethods :
        (Returns(m) /\ calls[1].reply.kind = "ok" /\ calls[1].reply.field)
        => LET raw == calls[1].reply.items
               res == calls[1].result.items
           IN /\ Len(res) = Len(raw)
              /\ \A i \in 1..Len(raw) :
                    /\ res[i].case_name
                       = firstCarriedText(raw[i].caseName, raw[i].case_name)
                    /\ res[i].citation_count
                       = firstCarriedNumber(raw[i].citationCount, raw[i].citation_count)

BillMethods == {"searchBills", "getRecentBills", "getBillDetails"}

DocumentMethods == {"searchDocuments", "getRecentDocuments", "getDocumentDetails"}

\* the canonical fields that a record of method m, raw or canonical, carries
\* a value for (a raw opinion carries a canonical field under either name)
Populated(m, r) ==
    IF m \in BillMethods
    THEN {f \in {"title", "shortTitle", "latestAction"} : r[f] # Undefined}
         \cup (IF r.summary.kind # "undefined" THEN {"summary"} ELSE {})
         \cup (IF r.subjects # NoArray THEN {"subjects"} ELSE {})
    ELSE IF m \in DocumentMethods
    THEN {f \in {"title", "abstract"} : r[f] # Undefined}
         \cup (IF r.agency_names # NoArray THEN {"agency_names"} ELSE {})
         \cup (IF "sections" \in DOMAIN r /\ r.sections # NoArray
               THEN {"sections"} ELSE {})
    ELSE (IF r.id # NoNumber THEN {"id"} ELSE {})
         \cup (IF "url" \in DOMAIN r
               THEN {f \in {"case_name", "url", "absolute_url"} : r[f] # Undefined}
                    \cup (IF r.citation_count # NoNumber THEN {"citation_count"} ELSE {})
               ELSE (IF r.caseName # Undefined \/ r.case_name # Undefined
                     THEN {"case_name"} ELSE {})
                    \cup (IF r.absoluteUrl # Undefined \/ r.absolute_url # Undefined
                          THEN {"url", "absolute_url"} ELSE {})
                    \cup (IF r.citationCount # NoNumber \/ r.citation_count # NoNumber
                          THEN {"citation_count"} ELSE {}))

\* the upstream record that the i-th record of the result was made from
RawOf(m, i) ==
    LET raw == calls[1].reply.items
        res == calls[1].result.items
    IN IF m \in ScoredMethods
       THEN raw[CHOOSE j \in 1..Len(raw) : RecPos(m, raw[j]) = RecPos(m, res[i])]
       ELSE raw[i]

\* C14: a canonical record carries no field that its upstream record does
\* not carry, and carries every field of the canonical schema that the
\* upstream record carries (sections of a document, url of an opinion).
C14_NothingAddedNothingDropped ==
    \A m \in BillMethods \cup DocumentMethods \cup CourtListenerMethods :
        (Returns(m) /\ calls[1].reply.kind = "ok" /\ calls[1].reply.field)
        => \A i \in 1..Len(calls[1].result.items) :
              Populated(m, calls[1].result.items[i]) = Populated(m, RawOf(m, i))

\* C15: whatever the tool name and the arguments, the call-tool handler
\* never throws and answers with a text; what is raised while tool X
\* executes (as by a call without arguments) becomes the text
\* "Error executing tool X: <message>", and an unknown name is answered
\* with a text too.
C15_HandlerAnswersText ==
    tool # NoTool =>
        /\ response.kind \in {"none", "text"}
        /\ response.kind = "text" => response.name = tool.name
        /\ (tool.name \in ToolNames /\ ~tool.arguments.given)
           => response = Text("Error executing tool", tool.name, 0)
        /\ (tool.name \in ToolNames /\ \E i \in 1..Len(calls) :
                                          calls[i].result.kind = "rejected")
           => response.text \in {"", "Error executing tool"}
        /\ tool.name \notin ToolNames => response.kind = "text"

\* C15 witness: a tool of the switch was called without arguments and the
\* handler has answered with the error text.
C15_Witness ==
    /\ tool.name = "search_all_legal"
    /\ ~tool.arguments.given
    /\ response.kind = "text"
    /\ response.text = "Error executing tool"

\* C16: a limit that reaches an adapter method or searchAll from a tool call
\* lies in [1, 50], and is 20 when the tool call gives no limit.
C16_LimitWithinSchema ==
    (tool # NoTool /\ op \in LimitMethods \cup {"searchAll"})
    => /\ limit \in 1..SchemaMaxLimit
       /\ tool.arguments.limit = NoNumber => limit = DefaultLimit

\* C17: a tool name of the README's Available Tools is dispatched to an
\* operation, never answered with "Unknown tool".
C17_ReadmeToolsDispatched ==
    (tool.name \in ReadmeTools /\ response.kind # "none")
    => response.text # "Unknown tool"

\* C18: an adapter whose credential is unset issues its request without
\* api_key parameter and without Authorization header, never raises, and
\* returns the normalized records of the reply.
C18_WorksWithoutCredential ==
    \A i \in 1..Len(calls) :
        (calls[i].method \in CredentialedMethods /\ ~Truthy(apiKey(calls[i].method)))
        => /\ calls[i].request.api_key = Undefined
           /\ calls[i].request.Authorization = Undefined
           /\ Settled(i) =>
                 /\ calls[i].result.kind = "list"
                 /\ (/\ calls[i].reply.kind = "ok"
                     /\ calls[i].reply.field
                     /\ calls[i].method \notin ScoredMethods)
                    => Len(calls[i].result.items) = Len(calls[i].reply.items)

\* C18 witness: searchOpinions has returned a record with the CourtListener
\* key unset while the Congress key is set.
C18_Witness ==
    /\ op = "searchOpinions"
    /\ keys.courtListener = Undefined
    /\ keys.congress = aKey
    /\ Settled(1)
    /\ calls[1].reply.kind = "ok"
    /\ Len(calls[1].result.items) = 1

\* C19: searchVotes and getCommittees log the credential-required
\* diagnostic, and not the generic one, when the upstream answers 403, and
\* the generic one, and not the credential-required one, on every other
\* failure; either way they resolve to the empty list.
C19_CredentialRequiredOn403 ==
    \A m \in {"searchVotes", "getCommittees"} :
        (Returns(m) /\ calls[1].reply.kind \in {"http", "net"})
        => /\ calls[1].result = List(<<>>)
           /\ calls[1].log = IF calls[1].reply.status = 403
                             THEN CredentialRequired ELSE GenericError

\* C19 witness: getCommittees has returned after a 403.
C19_Witness ==
    /\ Returns("getCommittees")
    /\ calls[1].reply = HttpError(403)
    /\ calls[1].log = CredentialRequired
    /\ calls[1].result = List(<<>>)

\* the score the specification gives an upstream bill, in half points
weightedBillScore(raw, q) ==
    FieldScore(raw.title, q, 8).value + FieldScore(raw.shortTitle, q, 8).value
    + FieldScore(PropText(raw.summary), q, 4).value
    + FieldScore(raw.latestAction, q, 3).value
    + (IF raw.subjects # NoArray THEN 2 * SubjectBonus(raw.subjects, QueryTerms(q))
       ELSE 0)

\* C20: the score searchBills ranks a candidate by is 4 * title + 4 * short
\* title + 2 * summary text + 1.5 * latest action + 20 per matching tag of
\* the upstream record; its summary text counts.
C20_RankedByWeightedFields ==
    (Returns("searchBills") /\ calls[1].reply.kind = "ok")
    => \A i \in 1..Len(calls[1].reply.items) :
          LET raw == calls[1].reply.items[i]
              ranked == scoreBillRelevance(normalizeBill(raw), query)
          IN ~ranked.threw => ranked.value = weightedBillScore(raw, query)

\* the agency names of a list that contain a query term
MatchingAgencies(agencies, q) ==
    {i \in 1..Len(agencies) :
        agencies[i] # Undefined /\ AnyTermIn(agencies[i], QueryTerms(q))}

\* C21: for every document and query, scoreDocumentRelevance is 3 * the
\* score of the title + 2 * the score of the abstract + 10 per agency name
\* that contains a query term longer than 2 characters (once per name).
C21_DocumentScoreIsWeightedSum ==
    (entity.kind = "document" /\ score # NoScore)
    => LET doc == entity.rec
           title == calculateRelevanceScore(doc.title, squery)
           abstract == calculateRelevanceScore(doc.abstract, squery)
           agencies == IF doc.agency_names = NoArray THEN {}
                       ELSE MatchingAgencies(doc.agency_names, squery)
       IN /\ ~score.threw
          /\ ~title.threw /\ ~abstract.threw
          /\ score.value = 3 * title.value + 2 * abstract.value
                           + 10 * Cardinality(agencies)

\* C22: searchBills asks its upstream for min(5 * limit, 250) records and
\* searchDocuments for min(3 * limit, 100), and for every limit from 1 to 50
\* the count asked for is at least the limit.
C22_OverFetchAtLeastLimit ==
    /\ \A i \in 1..Len(calls) :
        LET c == calls[i]
        IN /\ c.method = "searchBills"
              => c.fetch = (IF 5 * c.limit < 250 THEN 5 * c.limit ELSE 250)
           /\ c.method = "searchDocuments"
              => c.fetch = (IF 3 * c.limit < 100 THEN 3 * c.limit ELSE 100)
           /\ (c.method \in ScoredMethods /\ c.limit \in 1..50)
              => c.fetch >= c.limit
    /\ \A m \in ScoredMethods : \A l \in 1..50 : fetchLimit(m, l) >= l

\* searchDocuments was called with limit 50 and asked for the capped 100
C22_Witness ==
    /\ Returns("searchDocuments")
    /\ calls[1].limit = 50
    /\ calls[1].fetch = 100
    /\ calls[1].reply.kind = "ok"

\* C23: searchAll resolves only once all four adapter calls have settled; a
\* call that settles leaves the other calls as they were, and the resolved
\* structure holds under each key the list its own source's reply maps to,
\* whatever the order in which the four calls completed.
C23_ResolvesAfterAllInAnyOrder ==
    /\ [](op = "searchAll" /\ agg.state = "resolved"
          => \A i \in 1..Len(calls) :
                /\ calls[i].state = "settled"
                /\ agg.value[SourceKey(calls[i].method)]
                   = run(calls[i].method, query, calls[i].limit,
                         calls[i].reply).items)
    /\ [][op = "searchAll" /\ op' = "searchAll"
          => /\ agg.state = "pending" /\ agg'.state # "pending"
                => \A i \in 1..Len(calls) : calls[i].state = "settled"
             /\ \A i, j \in 1..Len(calls) :
                   calls[i].state = "pending" /\ calls'[i].state = "settled"
                   /\ j # i
                   => calls'[j] = calls[j]]_vars

\* searchAll has resolved with records under each of the four keys, of four
\* calls that complete in any order
C23_Witness ==
    /\ op = "searchAll"
    /\ agg.state = "resolved"
    /\ \A i \in 1..4 : calls[i].state = "settled" /\ calls[i].reply.kind = "ok"
    /\ Len(agg.value.bills) = 1
    /\ Len(agg.value.regulations) = 1
    /\ Len(agg.value.codeSections) = 2
    /\ Len(agg.value.comments) = 2

\* C24: every adapter call and every searchAll invocation eventually
\* resolves, even when an upstream never responds.
C24_EventuallyResolves ==
    (op # "idle")
    ~> (IF op = "searchAll" THEN agg.state # "pending"
        ELSE Len(calls) = 1 /\ calls[1].state = "settled")

C26_UrlSynthesizedFromId ==
    \A m \in CourtListenerMethods :
        (Returns(m) /\ calls[1].reply.kind = "ok" /\ calls[1].reply.field)
        => LET raw == calls[1].reply.items
               res == calls[1].result.items
           IN /\ Len(res) = Len(raw)
              /\ \A i \in 1..Len(raw) :
                    (/\ raw[i].id # NoNumber
                     /\ raw[i].absoluteUrl = Undefined
                     /\ raw[i].absolute_url = Undefined)
                    => /\ res[i].url = synthesizedUrl(raw[i].id)
                       /\ res[i].absolute_url = synthesizedUrl(raw[i].id)

\* a record of the batch of method m that lacks a field: a bill without title,
\* a document with an agency name that is not a string, a comment without
\* attributes
LacksField(m, r) ==
    CASE m = "searchBills" -> r.title = Undefined
      [] m = "searchDocuments" ->
            /\ r.agency_names # NoArray
            /\ \E j \in 1..Len(r.agency_names) : r.agency_names[j] = Undefined
      [] OTHER -> ~r.attributes

\* C27: when a record of an upstream batch lacks a field, searchBills,
\* searchDocuments and searchComments still return the records of the batch,
\* up to limit, and not an empty list for the whole batch (queries without
\* regular-expression metacharacters).
C27_BatchSurvivesMissingField ==
    \A m \in {"searchBills", "searchDocuments", "searchComments"} :
        (/\ Returns(m)
         /\ calls[1].reply.kind = "ok" /\ calls[1].reply.field
         /\ \A k \in 1..Len(query) : query[k] # "+"
         /\ \E i \in 1..Len(calls[1].reply.items) :
               LacksField(m, calls[1].reply.items[i]))
        => Len(calls[1].result.items)
           >= Min(calls[1].limit, Len(calls[1].reply.items))

\* the candidates of the settled call of scored method m with their scores,
\* in the order the method's sort leaves them
SortedScored(m) ==
    sortByScore([i \in 1..Len(Candidates(m)) |->
                    [rec |-> Candidates(m)[i],
                     relevanceScore |-> RecScore(m, Candidates(m)[i]).value]])

\* the list the floored branch yields: candidates at or above the floor, first l
Floored(m, sorted, l) == stripScore(slice(filterFloor(sorted, Floor(m)), l))

\* the floored branch is the one the method returns through
FlooredBranch(m, sorted, l) ==
    IF m = "searchBills" THEN Len(filterFloor(sorted, Floor(m))) >= l
    ELSE ~(Len(Floored(m, sorted, l)) < l /\ Len(sorted) > 0)

\* C28: in searchBills and searchDocuments the relevance floor never changes
\* the output: for every scored candidate list and every limit >= 0 the list
\* returned through the floored branch is the first min(limit, n) entries of
\* the score-sorted list, which is also what the other branch returns, and is
\* what the call returns when its debug log does not throw.
C28_FloorNeverChangesOutput ==
    \A m \in ScoredMethods :
        (Returns(m) /\ calls[1].reply.kind = "ok" /\ AllScored(m))
        => LET sorted == SortedScored(m)
           IN /\ \A l \in 0..(Len(sorted) + 1) :
                    /\ FlooredBranch(m, sorted, l)
                       => Floored(m, sorted, l) = stripScore(slice(sorted, l))
                    /\ (IF m = "searchBills" THEN smartFilter(sorted, l)
                        ELSE floorOrTop(sorted, l))
                       = stripScore(slice(sorted, l))
              /\ ~(m = "searchBills" /\ LogThrows(sorted))
                 => calls[1].result.items
                    = stripScore(slice(sorted, calls[1].limit))

\* searchBills returned through the floored branch while a candidate scored
\* below the floor
C28_Witness ==
    /\ Returns("searchBills") /\ calls[1].reply.kind = "ok"
    /\ AllScored("searchBills")
    /\ LET sorted == SortedScored("searchBills")
           high == filterFloor(sorted, Floor("searchBills"))
       IN /\ Len(high) >= 1
          /\ Len(high) < Len(sorted)
          /\ FlooredBranch("searchBills", sorted, calls[1].limit)
          /\ Len(calls[1].result.items) = calls[1].limit

\* C29: for the same query, limit and upstream response, searchBills and
\* searchDocuments of us-legal-apis.ts, which the tool handler calls, ask for
\* the same count and return the same records in the same order as
\* searchBills and searchDocuments of index.ts (a query given, no record or
\* query on which the scorer of index.ts throws).
C29_ImportedAdaptersScoreAndRank ==
    (/\ tool # NoTool
     /\ op \in ScoredMethods
     /\ Settled(1)
     /\ tool.arguments.query # Undefined
     /\ ~raises(op, query, limit, calls[1].reply))
    => /\ calls[1].result = run(op, query, limit, calls[1].reply)
       /\ calls[1].fetch = fetchLimit(op, limit)

\* C30: calculateRelevanceScore returns a number without throwing for every
\* text and every query, and a query term that is a substring of the text,
\* regular-expression metacharacters included, is counted at least once.
C30_MetacharactersMatchLiterally ==
    score # NoScore =>
        /\ ~score.threw
        /\ (text # <<>> /\ squery # <<>>)
           => \A i \in 1..Len(QueryTerms(squery)) :
                 LET term == QueryTerms(squery)[i]
                 IN includes(toLowerCase(text), term)
                    => /\ ~RegExpThrows(term)
                       /\ MatchCount(term, toLowerCase(text), 1) >= 1

====
